---- MODULE Spec2Model ----
(***************************************************************************)
(* Model of the Ollama -> OpenAI gateway of src/server.js: the two         *)
(* completion endpoints (/api/generate, /api/chat), the request            *)
(* translation they share, and the streaming re-framing session of         *)
(* /api/chat (the 'data' / 'end' / 'close' / 'error' handlers registered   *)
(* on the upstream response stream).                                       *)
(*                                                                         *)
(* Text is modelled as a sequence of symbols.  Each symbol stands for a    *)
(* fixed piece of text: "data: " is the SSE data marker, "\n" the line     *)
(* separator, "{a" the opening of a JSON object together with its members  *)
(* and "}" its closing brace.  Transport chunks may be cut between any two *)
(* symbols, so a record can be split after its marker, in the middle of    *)
(* its JSON and right before its newline.                                  *)
(*                                                                         *)
(* Three things the source leaves to its runtime are modelled as they are: *)
(*  - res.flush() exists only on some runtimes (http.ServerResponse lost   *)
(*    it in Node 14; the compression middleware adds one).  resHasFlush is *)
(*    chosen in Init; without it every res.flush() is a TypeError.         *)
(*  - an exception that escapes an event handler is uncaught and ends the  *)
(*    process (crashed): nothing runs afterwards.                          *)
(*  - res.write() on a response that res.end() was called on sends nothing *)
(*    and emits ERR_STREAM_WRITE_AFTER_END as an 'error' event on the next *)
(*    tick.  The response has no 'error' listener, so the process dies     *)
(*    (crashed) once the running handler has returned.  A response that    *)
(*    the runtime marked destroyed when its client went away drops the     *)
(*    write without the event; whether a disconnect marks it is chosen at  *)
(*    the disconnect (resDestroyed).                                       *)
(* writes logs the res.write() calls the response accepted.                *)
(***************************************************************************)
EXTENDS Integers, Sequences, FiniteSets, TLC

\* ------------------------------------------------------------------ bounds
\* At most this many upstream lines are put on the wire in one session.
MaxLines == 2
\* At most this many upstream events are delivered to a concurrent session.
MaxEvents == 2
\* Token counts of an upstream usage / timings block range over 0..MaxTokens.
MaxTokens == 1
\* A messages array has at most this many entries.
MaxEntries == 2
\* A free-form prompt has at most this many symbols.
MaxPrompt == 4
\* A well-formed delimited prompt has at most this many spans.
MaxSpans == 2
\* The penalty options range over 0..MaxPenalty.
MaxPenalty == 2

\* ------------------------------------------------------------- the alphabet
NL == "\n"
DataPrefix == "data: "
DoneLit == "[DONE]"

\* A JSON object is its opening symbol followed by "}".  The opening symbol
\* carries the object's members:
\*   "{a", "{b"  delta with content "a" / "b", no finish_reason
\*   "{hb"       delta with empty content, no finish_reason (heartbeat)
\*   "{fin"      delta with empty content and finish_reason "stop"
\*   "{fina"     delta with content "a" and finish_reason "stop"
\*   "{tc"       delta with empty content and a non-empty tool_calls array
\*   "{err"      payload carrying an error object
\*   "{"         the empty object: no error, no choices
\*   "{s"        delta, no finish_reason, whose content is spelled by the
\*               characters between it and "}"
OpenSyms == {"{a", "{b", "{hb", "{fin", "{fina", "{tc", "{err", "{"}

\* The upstream sends bytes.  Every symbol above is ASCII text, the same as
\* bytes and as characters; the character e-acute is the two bytes C3 A9.
ByteC3 == "0xC3"
ByteA9 == "0xA9"
EAcute == "<e-acute>"
\* U+FFFD, what the decoder puts for a byte sequence that is no character
Replacement == "<U+FFFD>"

\* The upstream lines (without their newline) a session may be fed.
LContentA == <<DataPrefix, "{a", "}">>
LContentB == <<DataPrefix, "{b", "}">>
LHeartbeat == <<DataPrefix, "{hb", "}">>
LFinish == <<DataPrefix, "{fin", "}">>
LFinishContent == <<DataPrefix, "{fina", "}">>
LError == <<DataPrefix, "{err", "}">>
LToolCall == <<DataPrefix, "{tc", "}">>
LNoChoices == <<DataPrefix, "{", "}">>
LContentE == <<DataPrefix, "{s", ByteC3, ByteA9, "}">>
LMalformed == <<DataPrefix, "{a">>
LDone == <<DataPrefix, DoneLit>>
LBlank == <<>>
LComment == <<":">>

LineKinds ==
  {LContentA, LContentB, LContentE, LHeartbeat, LFinish, LFinishContent,
   LError, LToolCall, LNoChoices, LMalformed, LDone, LBlank, LComment}

VARIABLES
  pc,              \* where the request handler stands: "idle", "posting",
                   \* "fallback", "streaming", "replied"
  endpoint,        \* "none", "generate" or "chat"
  req,             \* the inbound request body and headers (NoReq when not in scope)
  isStreaming,     \* local isStreaming of the /api/chat handler
  openaiRequest,   \* const openaiRequest of the handler (NoOut when not in scope)
  posted,          \* the stream flag of every outbound POST /v1/chat/completions
  upOutcome,       \* how the upstream answered the first outbound call
  status,          \* HTTP status line sent to the client (0: none yet)
  openaiResponse,  \* openaiResponse.data of the non-streaming call (NoBody: none)
  ollamaResponse,  \* const ollamaResponse of a non-streaming reply (NoReply: none)
  writes,          \* every res.write / res.json body the response accepted, in call order
  ends,            \* number of res.end() calls (res.json ends the response too)
  responseBuffer,  \* let responseBuffer
  firstChunk,      \* let firstChunk
  streamEnded,     \* let streamEnded
  crashed,         \* an uncaught exception or unhandled 'error' event: the process dies
  resHasFlush,     \* whether the runtime's ServerResponse has a flush() method
  wire,            \* upstream bytes produced and not yet delivered in a chunk
  received,        \* the text of the chunks delivered so far, each as decoded
                   \* by its 'data' event
  delivered,       \* the upstream bytes delivered so far in 'data' events
  fired,           \* the upstream stream events among end / close / error emitted so far
  clientGone,      \* the inbound client has disconnected
  resDestroyed,    \* the runtime marked the response destroyed at the disconnect
  sessions         \* concurrent streaming exchanges: each one's locals and the
                   \* events its upstream has sent

vars ==
  <<pc, endpoint, req, isStreaming, openaiRequest, posted, upOutcome, status,
    openaiResponse, ollamaResponse, writes, ends, responseBuffer, firstChunk, streamEnded, crashed, resHasFlush, wire,
    received, delivered, fired, clientGone, resDestroyed, sessions>>

\* --------------------------------------------------------- text primitives
Last(s) == s[Len(s)]
Front(s) == SubSeq(s, 1, Len(s) - 1)

\* String.prototype.startsWith('data: ')
StartsWithData(line) == Len(line) >= 1 /\ line[1] = DataPrefix

\* line.substring(6): the text after the 'data: ' marker
Substring6(line) == SubSeq(line, 2, Len(line))

\* String.prototype.split('\n')
RECURSIVE Split(_)
Split(t) ==
  IF \A i \in 1..Len(t) : t[i] # NL
  THEN <<t>>
  ELSE LET i == CHOOSE k \in 1..Len(t) :
                   t[k] = NL /\ \A m \in 1..(k - 1) : t[m] # NL
       IN <<SubSeq(t, 1, i - 1)>> \o Split(SubSeq(t, i + 1, Len(t)))

\* String.prototype.trim(): strips leading and trailing white space
IsSpace(c) == c \in {NL, " "}
RECURSIVE TrimLeft(_)
TrimLeft(t) == IF t # <<>> /\ IsSpace(Head(t)) THEN TrimLeft(Tail(t)) ELSE t
RECURSIVE TrimRight(_)
TrimRight(t) == IF t # <<>> /\ IsSpace(Last(t)) THEN TrimRight(Front(t)) ELSE t
Trim(t) == TrimRight(TrimLeft(t))

\* Buffer.prototype.toString(): UTF-8 decoding of one chunk on its own.  The
\* two bytes of a character give the character when they arrive together; a
\* lead byte without its continuation, and a continuation byte without its
\* lead, each give U+FFFD.
RECURSIVE toString(_)
toString(chunk) ==
  IF chunk = <<>> THEN <<>>
  ELSE IF Head(chunk) = ByteC3 /\ Len(chunk) >= 2 /\ chunk[2] = ByteA9
  THEN <<EAcute>> \o toString(SubSeq(chunk, 3, Len(chunk)))
  ELSE IF Head(chunk) \in {ByteC3, ByteA9}
  THEN <<Replacement>> \o toString(Tail(chunk))
  ELSE <<Head(chunk)>> \o toString(Tail(chunk))

\* The string value a JSON string of up to two characters parses to.
Chars == {EAcute, Replacement}
Spell(cs) ==
  IF cs = <<>> THEN ""
  ELSE IF cs = <<EAcute>> THEN "<e-acute>"
  ELSE IF cs = <<Replacement>> THEN "<U+FFFD>"
  ELSE IF cs = <<EAcute, EAcute>> THEN "<e-acute><e-acute>"
  ELSE IF cs = <<EAcute, Replacement>> THEN "<e-acute><U+FFFD>"
  ELSE IF cs = <<Replacement, EAcute>> THEN "<U+FFFD><e-acute>"
  ELSE "<U+FFFD><U+FFFD>"

\* JSON.parse(data) of the payloads of the alphabet.  ok = FALSE: SyntaxError
\* (an object that is never closed, an empty payload, anything else).
JSONparse(data) ==
  IF /\ Len(data) \in 2..4 /\ data[1] = "{s" /\ Last(data) = "}"
     /\ \A i \in 2..(Len(data) - 1) : data[i] \in Chars
  THEN [ok |-> TRUE, error |-> FALSE, choices |-> TRUE,
        content |-> Spell(SubSeq(data, 2, Len(data) - 1)),
        tool_calls |-> FALSE, finish_reason |-> FALSE]
  ELSE IF Len(data) = 2 /\ data[1] \in OpenSyms /\ data[2] = "}"
  THEN [ok |-> TRUE,
        error |-> data[1] = "{err",
        choices |-> data[1] \notin {"{err", "{"},
        content |-> IF data[1] \in {"{a", "{fina"} THEN "a"
                    ELSE IF data[1] = "{b" THEN "b" ELSE "",
        tool_calls |-> data[1] = "{tc",
        finish_reason |-> data[1] \in {"{fin", "{fina"}]
  ELSE [ok |-> FALSE, error |-> FALSE, choices |-> FALSE, content |-> "",
        tool_calls |-> FALSE, finish_reason |-> FALSE]

\* ------------------------------------------------- what the client is sent
Frame(content, tool, done) ==
  [k |-> "frame", content |-> content, tool_calls |-> tool, done |-> done]
ErrorObject(type) ==
  [k |-> "error", content |-> type, tool_calls |-> FALSE, done |-> FALSE]
DoneMarker ==
  [k |-> "[DONE]", content |-> "", tool_calls |-> FALSE, done |-> FALSE]
JsonReply(what) ==
  [k |-> "json", content |-> what, tool_calls |-> FALSE, done |-> FALSE]

\* translateOpenAIStreamToOllamaChat.  threw: response.choices[0] of a payload
\* without choices is a TypeError.
translateOpenAIStreamToOllamaChat(response) ==
  IF ~response.choices
  THEN [threw |-> TRUE, content |-> "", tool_calls |-> FALSE, done |-> FALSE]
  ELSE [threw |-> FALSE,
        content |-> response.content,
        tool_calls |-> response.tool_calls,
        done |-> response.finish_reason]

\* ------------------------------------------------ the streaming session
\* A session value: the three locals of the streaming branch and the response.
Session ==
  [responseBuffer |-> responseBuffer, firstChunk |-> firstChunk,
   streamEnded |-> streamEnded, writes |-> writes, ends |-> ends,
   crashed |-> crashed]

\* res.write(f).  After res.end() nothing is sent: the write-after-end error
\* is emitted on the next tick and, unhandled, ends the process; the handler
\* itself runs on to its end.  A response the runtime has marked destroyed
\* drops the write without the 'error' event.
ResWrite(s, f) ==
  IF s.ends = 0 THEN [s EXCEPT !.writes = Append(@, f)]
  ELSE IF resDestroyed THEN s
  ELSE [s EXCEPT !.crashed = TRUE]
\* res.end(); streamEnded = true
ResEnd(s) == [s EXCEPT !.ends = @ + 1, !.streamEnded = TRUE]
\* An exception nobody catches leaves the handler where it stood.
Uncaught(s) == [s EXCEPT !.crashed = TRUE]
\* res.flush(); res.end(); streamEnded = true  outside any try block:
\* without a flush method the TypeError escapes the handler.
FlushEnd(s) == IF resHasFlush THEN ResEnd(s) ELSE Uncaught(s)

Cont(s) == [s |-> s, ret |-> FALSE]
Ret(s) == [s |-> s, ret |-> TRUE]

\* catch (parseError) of the 'data' handler: no return, the line loop goes on
DataCatch(s) ==
  ResEnd(ResWrite(ResWrite(s, ErrorObject("parse_error")), DoneMarker))

\* The body of if (line.startsWith('data: ')) in the 'data' handler.
DataRecord(s, line) ==
    LET data == Substring6(line) IN
    IF data = <<DoneLit>>
    THEN Ret(IF ~s.streamEnded THEN FlushEnd(ResWrite(s, DoneMarker)) ELSE s)
    ELSE
      LET jsonData == JSONparse(data) IN
      IF ~jsonData.ok THEN Cont(DataCatch(s))
      ELSE IF jsonData.error
      THEN Ret(ResEnd(ResWrite(ResWrite(s, ErrorObject("upstream")), DoneMarker)))
      ELSE
        LET ollamaData == translateOpenAIStreamToOllamaChat(jsonData) IN
        IF ollamaData.threw THEN Cont(DataCatch(s))
        ELSE
          LET s1 == IF s.firstChunk
                    THEN [ResWrite(s, Frame("", FALSE, FALSE))
                            EXCEPT !.firstChunk = FALSE]
                    ELSE s
              s2 == IF ollamaData.content # "" \/ ollamaData.tool_calls
                    THEN ResWrite(s1, Frame(ollamaData.content,
                                            ollamaData.tool_calls, FALSE))
                    ELSE s1
              s3 == IF ollamaData.done
                    THEN ResWrite(s2, Frame(ollamaData.content,
                                            ollamaData.tool_calls, TRUE))
                    ELSE s2
          IN IF ollamaData.done
             THEN LET s4 == ResWrite(s3, DoneMarker) IN
                  \* res.flush() sits inside the try block here
                  IF resHasFlush THEN Cont(ResEnd(s4)) ELSE Cont(DataCatch(s4))
             ELSE Cont(s3)

\* A line loop that stops at a line without the data marker.
DataLine_NonDataStops(s, line) ==
  IF ~StartsWithData(line) THEN Ret(s) ELSE DataRecord(s, line)

\* One iteration of the line loop of the 'data' handler.
DataLine(s, line) ==
  IF ~StartsWithData(line) THEN Cont(s) ELSE DataRecord(s, line)

\* A line loop that walks the lines of a chunk from the last to the first.
RECURSIVE DataLoop_Reversed(_, _)
DataLoop_Reversed(s, lines) ==
  IF lines = <<>> THEN s
  ELSE LET r == DataLine(s, Last(lines)) IN
       IF r.ret THEN r.s ELSE DataLoop_Reversed(r.s, Front(lines))

RECURSIVE DataLoop(_, _)
DataLoop(s, lines) ==
  IF lines = <<>> THEN s
  ELSE LET r == DataLine(s, Head(lines)) IN
       IF r.ret THEN r.s ELSE DataLoop(r.s, Tail(lines))

\* A 'data' handler without the streamEnded test.
DataHandler_NoGuard(s, chunk) ==
  LET lines == Split(s.responseBuffer \o toString(chunk)) IN
  DataLoop([s EXCEPT !.responseBuffer = Last(lines)], Front(lines))

\* A 'data' handler that leaves the whole text in the buffer.
DataHandler_KeepsBuffer(s, chunk) ==
  IF s.streamEnded THEN s
  ELSE LET lines == Split(s.responseBuffer \o toString(chunk)) IN
       DataLoop([s EXCEPT !.responseBuffer = s.responseBuffer \o toString(chunk)],
                Front(lines))

\* openaiResponse.data.on('data', (chunk) => ...): the chunk is decoded on its
\* own and appended to the buffer
DataHandler(s, chunk) ==
  IF s.streamEnded THEN s
  ELSE LET lines == Split(s.responseBuffer \o toString(chunk)) IN
       DataLoop([s EXCEPT !.responseBuffer = Last(lines)], Front(lines))

\* catch (parseError) of the 'end' handler: its res.flush() is not guarded
EndCatch(s) ==
  LET s1 == ResWrite(ResWrite(s, ErrorObject("parse_error")), DoneMarker) IN
  IF resHasFlush THEN Cont(ResEnd(s1)) ELSE Ret(Uncaught(s1))

\* One iteration of the line loop of the 'end' handler.
EndLine(s, line) ==
  IF ~StartsWithData(line) THEN Cont(s)
  ELSE
    LET data == Substring6(line) IN
    IF data = <<DoneLit>>
    THEN Ret(IF ~s.streamEnded THEN FlushEnd(ResWrite(s, DoneMarker)) ELSE s)
    ELSE
      LET jsonData == JSONparse(data) IN
      IF ~jsonData.ok THEN EndCatch(s)
      ELSE IF jsonData.error
      THEN LET s1 == ResWrite(ResWrite(s, ErrorObject("upstream")), DoneMarker) IN
           IF resHasFlush THEN Ret(ResEnd(s1)) ELSE EndCatch(s1)
      ELSE
        LET ollamaData == translateOpenAIStreamToOllamaChat(jsonData) IN
        IF ollamaData.threw THEN EndCatch(s)
        ELSE
          LET s1 == ResWrite(s, Frame(ollamaData.content,
                                      ollamaData.tool_calls, ollamaData.done))
          IN IF ollamaData.done
             THEN LET s2 == ResWrite(s1, DoneMarker) IN
                  IF resHasFlush THEN Cont(ResEnd(s2)) ELSE EndCatch(s2)
             ELSE Cont(s1)

RECURSIVE EndLoop(_, _)
EndLoop(s, lines) ==
  IF lines = <<>> THEN Cont(s)
  ELSE LET r == EndLine(s, Head(lines)) IN
       IF r.ret THEN Ret(r.s) ELSE EndLoop(r.s, Tail(lines))

\* openaiResponse.data.on('end', () => ...)
EndHandler(s) ==
  IF s.streamEnded THEN s
  ELSE LET r == IF Trim(s.responseBuffer) # <<>>
                THEN EndLoop(s, Split(s.responseBuffer))
                ELSE Cont(s)
       IN IF r.ret THEN r.s
          ELSE IF ~r.s.streamEnded THEN FlushEnd(ResWrite(r.s, DoneMarker))
          ELSE r.s

\* A 'close' handler without the streamEnded test.
CloseHandler_Unguarded(s) == ResEnd(ResWrite(s, DoneMarker))

\* openaiResponse.data.on('close', () => ...)
CloseHandler(s) ==
  IF ~s.streamEnded THEN ResEnd(ResWrite(s, DoneMarker)) ELSE s

\* openaiResponse.data.on('error', (error) => ...)
ErrorHandler(s) ==
  IF ~s.streamEnded
  THEN ResEnd(ResWrite(ResWrite(s, ErrorObject("stream_error")), DoneMarker))
  ELSE s


\* ------------------------------------------------- request translation
\* An inbound request: the body fields the handlers read, and whether the
\* Accept header contains 'text/event-stream'.  Absent text fields are <<>>
\* (absent and empty are both falsy); a messages / history entry records
\* which of its fields are present.
Entry(hasRole, role, hasContent, content) ==
  [isNull |-> FALSE, hasRole |-> hasRole, role |-> role,
   hasContent |-> hasContent, content |-> content]
\* null as an array element: reading item.role of it is a TypeError
NullEntry ==
  [isNull |-> TRUE, hasRole |-> FALSE, role |-> "",
   hasContent |-> FALSE, content |-> <<>>]
Message(role, content) == [role |-> role, content |-> content]

\* An optional number: request.options?.x and the like.
Opt(has, v) == [has |-> has, v |-> v]
Absent == Opt(FALSE, 0)
Present(v) == Opt(TRUE, v)

NoReq ==
  [stream |-> FALSE, acceptSSE |-> FALSE, hasMessages |-> FALSE, messages |-> <<>>,
   system |-> <<>>, prompt |-> <<>>, hasHistory |-> FALSE, history |-> <<>>,
   repeat_penalty |-> Absent, presence_penalty |-> Absent]

\* JavaScript truthiness of a text field
Truthy(text) == text # <<>>

\* for (const item of request.messages) if (item.role && item.content) push
RECURSIVE FilterMessages(_)
FilterMessages(items) ==
  IF items = <<>> THEN <<>>
  ELSE LET item == Head(items) IN
       (IF ~item.isNull /\ item.hasRole /\ item.role # ""
           /\ item.hasContent /\ Truthy(item.content)
        THEN <<Message(item.role, item.content)>> ELSE <<>>)
       \o FilterMessages(Tail(items))

\* for (const item of request.history) if role is user or assistant push
RECURSIVE FilterHistory(_)
FilterHistory(items) ==
  IF items = <<>> THEN <<>>
  ELSE LET item == Head(items) IN
       (IF ~item.isNull /\ item.hasRole /\ item.role \in {"user", "assistant"}
        THEN <<Message(item.role,
                       IF item.hasContent /\ Truthy(item.content)
                       THEN item.content ELSE <<>>)>>
        ELSE <<>>)
       \o FilterHistory(Tail(items))

\* request.prompt.includes(tag)
Includes(text, tag) == \E i \in 1..Len(text) : text[i] = tag

\* The custom tag parser: one step of  for (const line of promptLines).
\* st = [messages, currentRole ("" is null), currentContent]
TagLine(st, line) ==
  LET flushed == IF st.currentRole # "" /\ Truthy(st.currentContent)
                 THEN Append(st.messages,
                             Message(st.currentRole, Trim(st.currentContent)))
                 ELSE st.messages
  IN
  IF Len(line) >= 1 /\ line[1] = "<user>"
  THEN [messages |-> flushed, currentRole |-> "user",
        currentContent |-> SubSeq(line, 2, Len(line))]
  ELSE IF Len(line) >= 1 /\ line[1] = "<assistant>"
  THEN [messages |-> flushed, currentRole |-> "assistant",
        currentContent |-> SubSeq(line, 2, Len(line))]
  ELSE IF line = <<"</user>">> \/ line = <<"</assistant>">>
  THEN IF Truthy(st.currentContent)
       THEN [st EXCEPT !.messages =
                         Append(@, Message(st.currentRole, Trim(st.currentContent))),
                       !.currentContent = <<>>]
       ELSE st
  ELSE IF st.currentContent # <<>>
  THEN [st EXCEPT !.currentContent = @ \o <<NL>> \o line]
  ELSE st

RECURSIVE TagLoop(_, _)
TagLoop(st, lines) ==
  IF lines = <<>> THEN st ELSE TagLoop(TagLine(st, Head(lines)), Tail(lines))

\* A tag parser without the flush after the loop.
ParseTaggedPrompt_NoFinalFlush(prompt) ==
  TagLoop([messages |-> <<>>, currentRole |-> "", currentContent |-> <<>>],
          Split(prompt)).messages

ParseTaggedPrompt(prompt) ==
  LET st == TagLoop([messages |-> <<>>, currentRole |-> "", currentContent |-> <<>>],
                    Split(prompt))
  IN IF st.currentRole # "" /\ Truthy(st.currentContent)
     THEN Append(st.messages, Message(st.currentRole, Trim(st.currentContent)))
     ELSE st.messages

\* A translation that reads the prompt whatever the earlier sources gave.
BeforeHistory_PromptAlways(request) ==
  LET m1 == IF request.hasMessages THEN FilterMessages(request.messages) ELSE <<>>
      m2 == IF m1 = <<>> /\ Truthy(request.system)
            THEN <<Message("system", request.system)>> ELSE m1
  IN IF Truthy(request.prompt)
     THEN m2 \o <<Message("user", request.prompt)>>
     ELSE m2

\* const messages when the history branch is reached: messages, else system,
\* else prompt.
BeforeHistory(request) ==
  LET m1 == IF request.hasMessages THEN FilterMessages(request.messages) ELSE <<>>
      m2 == IF m1 = <<>> /\ Truthy(request.system)
            THEN <<Message("system", request.system)>> ELSE m1
  IN IF m2 = <<>> /\ Truthy(request.prompt)
     THEN IF ~Includes(request.prompt, "<user>")
             /\ ~Includes(request.prompt, "<assistant>")
          THEN <<Message("user", request.prompt)>>
          ELSE ParseTaggedPrompt(request.prompt)
     ELSE m2

\* A translation without the synthetic empty user message.
NormalizeMessages_NoSynthetic(request) ==
  LET m3 == BeforeHistory(request) IN
  IF m3 = <<>> /\ request.hasHistory THEN FilterHistory(request.history) ELSE m3

\* The message list of translateOllamaToOpenAI: messages, else system, else
\* prompt, else history, else one empty user message.
NormalizeMessages(request) ==
  LET m3 == BeforeHistory(request)
      m4 == IF m3 = <<>> /\ request.hasHistory
            THEN FilterHistory(request.history) ELSE m3
  IN IF m4 = <<>> THEN <<Message("user", <<>>)>> ELSE m4

\* item.role of a null array element throws, in the messages loop and in the
\* history loop when that one is entered.
HasNull(items) == \E i \in 1..Len(items) : items[i].isNull
TranslateThrows(request) ==
  \/ request.hasMessages /\ HasNull(request.messages)
  \/ /\ BeforeHistory(request) = <<>>
     /\ request.hasHistory
     /\ HasNull(request.history)

\* translateOllamaToOpenAI: the fields of openaiRequest that depend on the
\* request's conversation, stream flag and penalties.  threw: a TypeError.
translateOllamaToOpenAI(request) ==
  [threw |-> TranslateThrows(request),
   messages |-> NormalizeMessages(request),
   stream |-> request.stream,
   frequency_penalty |->
     IF request.repeat_penalty.has /\ request.repeat_penalty.v # 0
     THEN Present(request.repeat_penalty.v - 1) ELSE Absent,
   presence_penalty |->
     IF request.presence_penalty.has /\ request.presence_penalty.v # 0
     THEN Present(request.presence_penalty.v) ELSE Absent]

NoOut ==
  [threw |-> FALSE, messages |-> <<>>, stream |-> FALSE,
   frequency_penalty |-> Absent, presence_penalty |-> Absent]

\* ------------------------------------------- non-streaming reply translation
\* x || 0
OrZero(o) == IF o.has THEN o.v ELSE 0

\* Token accounting that prefers the timings block.
TokenCounts_TimingsFirst(response) ==
  IF response.timings.has /\ response.timings.cache_n.has
  THEN [prompt_eval_count |-> response.timings.cache_n.v,
        eval_count |-> OrZero(response.timings.predicted_n),
        total_tokens |-> response.timings.cache_n.v
                           + OrZero(response.timings.predicted_n)]
  ELSE IF response.usage.has
  THEN [prompt_eval_count |-> OrZero(response.usage.prompt_tokens),
        eval_count |-> OrZero(response.usage.completion_tokens),
        total_tokens |-> OrZero(response.usage.total_tokens)]
  ELSE [prompt_eval_count |-> 0, eval_count |-> 0, total_tokens |-> 0]

\* The token counts of translateOpenAIToOllamaChat / ...Generate: usage if the
\* response has one, else timings if it carries cache_n, else zeros.
TokenCounts(response) ==
  IF response.usage.has
  THEN [prompt_eval_count |-> OrZero(response.usage.prompt_tokens),
        eval_count |-> OrZero(response.usage.completion_tokens),
        total_tokens |-> OrZero(response.usage.total_tokens)]
  ELSE IF response.timings.has /\ response.timings.cache_n.has
  THEN [prompt_eval_count |-> response.timings.cache_n.v,
        eval_count |-> OrZero(response.timings.predicted_n),
        total_tokens |-> response.timings.cache_n.v
                           + OrZero(response.timings.predicted_n)]
  ELSE [prompt_eval_count |-> 0, eval_count |-> 0, total_tokens |-> 0]

translateOpenAIToOllamaChat(response) ==
  [k |-> "chat",
   prompt_eval_count |-> TokenCounts(response).prompt_eval_count,
   eval_count |-> TokenCounts(response).eval_count,
   total_tokens |-> TokenCounts(response).total_tokens]

translateOpenAIToOllamaGenerate(response) ==
  [k |-> "generate",
   prompt_eval_count |-> TokenCounts(response).prompt_eval_count,
   eval_count |-> TokenCounts(response).eval_count,
   total_tokens |-> TokenCounts(response).total_tokens]

NoReply ==
  [k |-> "none", prompt_eval_count |-> 0, eval_count |-> 0, total_tokens |-> 0]

\* let isStreaming, after the forced-off test on the request's own messages
IsStreamingOf(request) ==
  LET requested == request.stream \/ request.acceptSSE IN
  IF requested /\ (~request.hasMessages \/ Len(request.messages) = 0)
  THEN FALSE
  ELSE requested


\* ------------------------------------------------------------ environment
\* The request bodies and headers the endpoints are exercised with.
ValidEntry == Entry(TRUE, "user", TRUE, <<"x">>)
NoContentEntry == Entry(TRUE, "user", FALSE, <<>>)
MessageLists == {<<>>, <<ValidEntry>>, <<NoContentEntry>>, <<NullEntry>>}

Requests ==
  {r \in [stream : BOOLEAN, acceptSSE : BOOLEAN, hasMessages : BOOLEAN,
          messages : MessageLists, system : {<<>>}, prompt : {<<>>, <<"x">>},
          hasHistory : {FALSE}, history : {<<>>},
          repeat_penalty : {Absent}, presence_penalty : {Absent}] :
     ~r.hasMessages => r.messages = <<>>}

\* The request bodies the request translation is exercised with, in three
\* families: the conversation sources in every combination, the penalty
\* options, and prompts.
SeqsUpTo(S, n) == UNION {[1..k -> S] : k \in 0..n}

AssistantEntry == Entry(TRUE, "assistant", TRUE, <<"y">>)
SystemEntry == Entry(TRUE, "system", TRUE, <<"s">>)
EmptyContentEntry == Entry(TRUE, "user", TRUE, <<>>)
NoRoleEntry == Entry(FALSE, "", TRUE, <<"x">>)
ToolEntry == Entry(TRUE, "tool", TRUE, <<"x">>)
EntryKinds ==
  {ValidEntry, AssistantEntry, ToolEntry, NoContentEntry, EmptyContentEntry,
   NoRoleEntry, NullEntry}
Histories ==
  {<<>>, <<ValidEntry>>, <<SystemEntry>>, <<NoContentEntry>>, <<NullEntry>>,
   <<AssistantEntry, ValidEntry>>}

SourceRequests ==
  {r \in [stream : {FALSE}, acceptSSE : {FALSE}, hasMessages : BOOLEAN,
          messages : SeqsUpTo(EntryKinds, MaxEntries),
          system : {<<>>, <<"s">>},
          prompt : {<<>>, <<"x">>, <<"<user>", "x">>, <<"<user>">>},
          hasHistory : BOOLEAN, history : Histories,
          repeat_penalty : {Absent}, presence_penalty : {Absent}] :
     /\ ~r.hasMessages => r.messages = <<>>
     /\ ~r.hasHistory => r.history = <<>>}

PenaltyOpts == {Absent} \cup {Present(n) : n \in 0..MaxPenalty}
OptionRequests ==
  [stream : BOOLEAN, acceptSSE : {FALSE}, hasMessages : {TRUE},
   messages : {<<ValidEntry>>}, system : {<<>>}, prompt : {<<>>},
   hasHistory : {FALSE}, history : {<<>>},
   repeat_penalty : PenaltyOpts, presence_penalty : PenaltyOpts]

\* Prompt text: the four tags, a letter, a blank and the newline.
PromptSyms == {"<user>", "<assistant>", "</user>", "</assistant>", "x", " ", NL}
\* A well-formed span: its role, its text, and whether the text starts on the
\* line of the opening tag or on the next line.
Spans == [role : {"user", "assistant"}, text : {<<"x">>, <<" ", "x", " ">>},
          sameLine : BOOLEAN]
SpanText(sp) ==
  <<"<" \o sp.role \o ">">>
  \o (IF sp.sameLine THEN sp.text ELSE <<NL>> \o sp.text)
  \o <<NL, "</" \o sp.role \o ">">>
RECURSIVE PromptOf(_)
PromptOf(spans) ==
  IF spans = <<>> THEN <<>>
  ELSE IF Len(spans) = 1 THEN SpanText(spans[1])
  ELSE SpanText(Head(spans)) \o <<NL>> \o PromptOf(Tail(spans))
Prompts ==
  SeqsUpTo(PromptSyms, MaxPrompt)
  \cup {PromptOf(spans) : spans \in SeqsUpTo(Spans, MaxSpans)}
PromptRequest(p) ==
  [stream |-> FALSE, acceptSSE |-> FALSE, hasMessages |-> FALSE, messages |-> <<>>,
   system |-> <<>>, prompt |-> p, hasHistory |-> FALSE, history |-> <<>>,
   repeat_penalty |-> Absent, presence_penalty |-> Absent]
PromptRequests == {PromptRequest(p) : p \in Prompts}

TranslateRequests == SourceRequests \cup OptionRequests \cup PromptRequests

\* The 2xx chat-completion bodies of the upstream, as far as token accounting
\* reads them: an optional usage block and an optional timings block, each
\* member present or not.
CountOpts == {Absent} \cup {Present(n) : n \in 0..MaxTokens}
NoUsage ==
  [has |-> FALSE, prompt_tokens |-> Absent, completion_tokens |-> Absent,
   total_tokens |-> Absent]
Usages ==
  {NoUsage} \cup [has : {TRUE}, prompt_tokens : CountOpts,
                  completion_tokens : CountOpts, total_tokens : CountOpts]
NoTimings == [has |-> FALSE, cache_n |-> Absent, predicted_n |-> Absent]
TimingsBlocks ==
  {NoTimings} \cup [has : {TRUE}, cache_n : CountOpts, predicted_n : CountOpts]
Bodies == [present : {TRUE}, usage : Usages, timings : TimingsBlocks]
PlainBody == [present |-> TRUE, usage |-> NoUsage, timings |-> NoTimings]
NoBody == [present |-> FALSE, usage |-> NoUsage, timings |-> NoTimings]
PlainRequest ==
  [stream |-> FALSE, acceptSSE |-> FALSE, hasMessages |-> TRUE,
   messages |-> <<ValidEntry>>, system |-> <<>>, prompt |-> <<>>,
   hasHistory |-> FALSE, history |-> <<>>,
   repeat_penalty |-> Absent, presence_penalty |-> Absent]

\* How the upstream may answer POST /v1/chat/completions:
\*   "stream"   2xx, response.data is a readable stream
\*   "body"     2xx, response.data is a complete chat-completion object
\*   "badbody"  2xx, response.data is something the translators throw on
\*   "nobody"   2xx, response.data is null or undefined
\*   "http401", "http500"  non-2xx status with a body (error.response set)
\*   "timeout"  no response, error.code ECONNABORTED
\*   "neterr"   no response, any other failure
Failures == {"http401", "http500", "timeout", "neterr"}
NoStream == {"body", "badbody", "nobody"}
UpStatus(outcome) ==
  IF outcome = "http401" THEN 401 ELSE IF outcome = "http500" THEN 500 ELSE 0

Lines(text) == Cardinality({i \in 1..Len(text) : text[i] = NL})

\* The locals of a streaming branch as declared, and a response nothing has
\* been written to.
InitSession ==
  [responseBuffer |-> <<>>, firstChunk |-> TRUE, streamEnded |-> FALSE,
   writes |-> <<>>, ends |-> 0, crashed |-> FALSE]

\* Concurrent exchanges: every /api/chat invocation has its own locals.
SessionIds == {"s1", "s2"}
NoExchange == [phase |-> "idle", s |-> InitSession, log |-> <<>>]
\* The chunks the concurrent sessions are fed with.
Chunks ==
  {LContentA \o <<NL>>, <<DataPrefix, "{b">>, <<"}", NL>>, LFinish \o <<NL>>,
   LDone \o <<NL>>}
Event(ev, chunk) == [ev |-> ev, chunk |-> chunk]

\* ---------------------------------------------------------------- Init
Init ==
  /\ pc = "idle"
  /\ endpoint = "none"
  /\ req = NoReq
  /\ isStreaming = FALSE
  /\ openaiRequest = NoOut
  /\ posted = <<>>
  /\ upOutcome = "none"
  /\ status = 0
  /\ openaiResponse = NoBody
  /\ ollamaResponse = NoReply
  /\ writes = <<>>
  /\ ends = 0
  /\ responseBuffer = <<>>
  /\ firstChunk = TRUE
  /\ streamEnded = FALSE
  /\ crashed = FALSE
  /\ resHasFlush \in BOOLEAN
  /\ wire = <<>>
  /\ received = <<>>
  /\ delivered = <<>>
  /\ fired = {}
  /\ clientGone = FALSE
  /\ resDestroyed = FALSE
  /\ sessions = [i \in SessionIds |-> NoExchange]

sessionVars == <<responseBuffer, firstChunk, streamEnded, crashed>>
upstreamVars == <<wire, received, delivered, fired>>

\* ------------------------------------------------------ request handlers
\* A catch block that forgets the error.response branch.
ErrorReply_NoResponseBranch(outcome) ==
  IF outcome = "timeout"
  THEN [status |-> 504, body |-> JsonReply("timeout_error")]
  ELSE [status |-> 500, body |-> JsonReply("server_error")]

\* A catch block that forgets the ECONNABORTED branch.
ErrorReply_NoTimeoutBranch(outcome) ==
  IF UpStatus(outcome) # 0
  THEN [status |-> UpStatus(outcome), body |-> JsonReply("upstream_error_body")]
  ELSE [status |-> 500, body |-> JsonReply("server_error")]

\* catch (error) of /api/generate and the outer catch of /api/chat
ErrorReply(outcome) ==
  IF UpStatus(outcome) # 0
  THEN [status |-> UpStatus(outcome), body |-> JsonReply("upstream_error_body")]
  ELSE IF outcome = "timeout"
  THEN [status |-> 504, body |-> JsonReply("timeout_error")]
  ELSE [status |-> 500, body |-> JsonReply("server_error")]

\* An inner catch that rethrows after its in-band error: the outer catch then
\* attempts a reply of its own.
InnerCatch_Rethrow ==
  /\ writes' = writes \o <<ErrorObject("server_error"), DoneMarker,
                            JsonReply("server_error")>>
  /\ ends' = ends + 2
  /\ pc' = "replied"

\* inner catch of the streaming branch: in-band error, marker, res.end()
InnerCatch ==
  /\ writes' = writes \o <<ErrorObject("server_error"), DoneMarker>>
  /\ ends' = ends + 1
  /\ pc' = "replied"

\* app.post('/api/generate'), up to the await of the outbound call.  A request
\* translation that throws lands in the catch block before anything is sent.
GenerateRequest(r) ==
  LET o == translateOllamaToOpenAI(r) IN
  /\ pc = "idle"
  /\ endpoint' = "generate"
  /\ isStreaming' = FALSE
  /\ IF o.threw
     THEN /\ pc' = "replied"
          /\ status' = ErrorReply("exception").status
          /\ writes' = Append(writes, ErrorReply("exception").body)
          /\ ends' = ends + 1
          /\ UNCHANGED <<req, openaiRequest, posted>>
     ELSE /\ pc' = "posting"
          /\ req' = r
          /\ openaiRequest' = o
          /\ posted' = Append(posted, o.stream)
          /\ UNCHANGED <<status, writes, ends>>
  /\ UNCHANGED <<upOutcome, openaiResponse, ollamaResponse, sessionVars, resHasFlush,
                 upstreamVars, clientGone, resDestroyed, sessions>>

\* app.post('/api/chat'), up to the await of the outbound call
ChatRequest(r) ==
  LET o == translateOllamaToOpenAI(r) IN
  /\ pc = "idle"
  /\ endpoint' = "chat"
  /\ isStreaming' = IsStreamingOf(r)
  /\ IF o.threw
     THEN /\ pc' = "replied"
          /\ status' = ErrorReply("exception").status
          /\ writes' = Append(writes, ErrorReply("exception").body)
          /\ ends' = ends + 1
          /\ UNCHANGED <<req, openaiRequest, posted>>
     ELSE /\ pc' = "posting"
          /\ req' = r
          /\ IF IsStreamingOf(r)
             THEN /\ openaiRequest' = [o EXCEPT !.stream = TRUE]
                  /\ status' = 200                 \* res.writeHead(200, ...)
                  /\ posted' = Append(posted, TRUE)
             ELSE /\ openaiRequest' = o
                  /\ status' = status
                  /\ posted' = Append(posted, o.stream)
          /\ UNCHANGED <<writes, ends>>
  /\ UNCHANGED <<upOutcome, openaiResponse, ollamaResponse, sessionVars, resHasFlush,
                 upstreamVars, clientGone, resDestroyed, sessions>>

\* The non-streaming call settles: translate and reply, or the catch block.
ReplyNonStreaming(outcome, body) ==
  /\ pc = "posting"
  /\ ~isStreaming
  /\ outcome \in NoStream \cup Failures
  /\ upOutcome' = outcome
  /\ pc' = "replied"
  /\ IF outcome = "body"
     THEN /\ status' = 200
          /\ openaiResponse' = body
          /\ ollamaResponse' = IF endpoint = "generate"
                               THEN translateOpenAIToOllamaGenerate(body)
                               ELSE translateOpenAIToOllamaChat(body)
          /\ writes' = Append(writes, JsonReply(endpoint))
     ELSE /\ status' = ErrorReply(outcome).status
          /\ UNCHANGED <<openaiResponse, ollamaResponse>>
          /\ writes' = Append(writes, ErrorReply(outcome).body)
  /\ ends' = ends + 1
  /\ req' = NoReq
  /\ openaiRequest' = NoOut
  /\ UNCHANGED <<endpoint, isStreaming, posted, sessionVars, resHasFlush,
                 upstreamVars, clientGone, resDestroyed, sessions>>

\* The streaming call resolves with a readable stream: the four handlers are
\* registered and the request handler returns.
StartStreaming ==
  /\ pc = "posting"
  /\ isStreaming
  /\ upOutcome' = "stream"
  /\ pc' = "streaming"
  /\ responseBuffer' = <<>>
  /\ firstChunk' = TRUE
  /\ streamEnded' = FALSE
  /\ req' = NoReq
  /\ openaiRequest' = NoOut
  /\ UNCHANGED <<endpoint, isStreaming, posted, status, openaiResponse,
                 ollamaResponse, writes, ends, crashed, resHasFlush,
                 upstreamVars, clientGone, resDestroyed, sessions>>

\* The streaming call resolves with something that is no stream: a second
\* outbound call is issued with openaiRequest (stream already forced to true).
StartFallback(outcome) ==
  /\ pc = "posting"
  /\ isStreaming
  /\ outcome \in {"body", "badbody"}
  /\ upOutcome' = outcome
  /\ pc' = "fallback"
  /\ posted' = Append(posted, openaiRequest.stream)
  /\ UNCHANGED <<endpoint, req, isStreaming, openaiRequest, status,
                 openaiResponse, ollamaResponse, writes, ends, sessionVars, resHasFlush,
                 upstreamVars, clientGone, resDestroyed, sessions>>

\* The streaming call rejects, or it resolves without data and the test
\* typeof openaiResponse.data.on is a TypeError: inner catch.
StreamingCallFails(outcome) ==
  /\ pc = "posting"
  /\ isStreaming
  /\ outcome \in Failures \cup {"nobody"}
  /\ upOutcome' = outcome
  /\ InnerCatch
  /\ req' = NoReq
  /\ openaiRequest' = NoOut
  /\ UNCHANGED <<endpoint, isStreaming, posted, status, openaiResponse,
                 ollamaResponse, sessionVars, resHasFlush, upstreamVars,
                 clientGone, resDestroyed, sessions>>

\* The second call settles.  A rejection or a translation error throws; so
\* does res.json() on success, because the headers went out with
\* res.writeHead(200): every outcome lands in the inner catch.
FallbackSettles(outcome) ==
  /\ pc = "fallback"
  /\ outcome \in NoStream \cup Failures
  /\ InnerCatch
  /\ req' = NoReq
  /\ openaiRequest' = NoOut
  /\ UNCHANGED <<endpoint, isStreaming, posted, upOutcome, status,
                 openaiResponse, ollamaResponse, sessionVars, resHasFlush, upstreamVars,
                 clientGone, resDestroyed, sessions>>

\* ------------------------------------------------- upstream stream events
Live == pc = "streaming" /\ ~crashed

SetSession(s) ==
  /\ responseBuffer' = s.responseBuffer
  /\ firstChunk' = s.firstChunk
  /\ streamEnded' = s.streamEnded
  /\ writes' = s.writes
  /\ ends' = s.ends
  /\ crashed' = s.crashed

gatewayVars ==
  <<pc, endpoint, req, isStreaming, openaiRequest, posted, upOutcome, status,
    openaiResponse, ollamaResponse>>

\* The upstream puts one more line on the wire.
Produce(line) ==
  /\ Live
  /\ fired = {}
  /\ Lines(received) + Lines(wire) < MaxLines
  /\ wire' = wire \o line \o <<NL>>
  /\ UNCHANGED <<gatewayVars, writes, ends, sessionVars, resHasFlush, received, delivered,
                 fired, clientGone, resDestroyed, sessions>>

\* 'data': the transport delivers the next k bytes of the wire as one chunk.
Data(k) ==
  /\ Live
  /\ fired = {}
  /\ k \in 0..Len(wire)
  /\ SetSession(DataHandler(Session, SubSeq(wire, 1, k)))
  /\ received' = received \o toString(SubSeq(wire, 1, k))
  /\ delivered' = delivered \o SubSeq(wire, 1, k)
  /\ wire' = SubSeq(wire, k + 1, Len(wire))
  /\ UNCHANGED <<gatewayVars, resHasFlush, fired, clientGone, resDestroyed, sessions>>

\* 'end': bytes still on the wire never arrive.
End ==
  /\ Live
  /\ fired = {}
  /\ SetSession(EndHandler(Session))
  /\ fired' = fired \cup {"end"}
  /\ wire' = <<>>
  /\ UNCHANGED <<gatewayVars, resHasFlush, received, delivered, clientGone, resDestroyed, sessions>>

\* 'error'
Error ==
  /\ Live
  /\ fired = {}
  /\ SetSession(ErrorHandler(Session))
  /\ fired' = fired \cup {"error"}
  /\ wire' = <<>>
  /\ UNCHANGED <<gatewayVars, resHasFlush, received, delivered, clientGone, resDestroyed, sessions>>

\* 'close'
Close ==
  /\ Live
  /\ "close" \notin fired
  /\ SetSession(CloseHandler(Session))
  /\ fired' = fired \cup {"close"}
  /\ wire' = <<>>
  /\ UNCHANGED <<gatewayVars, resHasFlush, received, delivered, clientGone, resDestroyed, sessions>>

\* The inbound client goes away mid-stream.  No handler is registered for it.
\* Whether the socket's close marks the response destroyed is the runtime's
\* business: Node 16 and later do, Node 14 and earlier do not.
ClientDisconnect ==
  /\ Live
  /\ ~clientGone
  /\ clientGone' = TRUE
  /\ resDestroyed' \in BOOLEAN
  /\ UNCHANGED <<gatewayVars, writes, ends, sessionVars, resHasFlush,
                 upstreamVars, sessions>>

Next ==
  \/ \E r \in Requests : GenerateRequest(r)
  \/ \E r \in Requests : ChatRequest(r)
  \/ \E o \in NoStream \cup Failures : ReplyNonStreaming(o, PlainBody)
  \/ StartStreaming
  \/ \E o \in {"body", "badbody"} : StartFallback(o)
  \/ \E o \in Failures \cup {"nobody"} : StreamingCallFails(o)
  \/ \E o \in NoStream \cup Failures : FallbackSettles(o)
  \/ \E line \in LineKinds : Produce(line)
  \/ \E k \in 0..(6 * MaxLines) : Data(k)
  \/ End
  \/ Error
  \/ Close

Spec == Init /\ [][Next]_vars

\* 'end' and 'error' emitted after another of end / close / error: the orders
\* a well-behaved readable stream does not produce.
EndAfter ==
  /\ Live
  /\ fired # {}
  /\ "end" \notin fired
  /\ SetSession(EndHandler(Session))
  /\ fired' = fired \cup {"end"}
  /\ wire' = <<>>
  /\ UNCHANGED <<gatewayVars, resHasFlush, received, delivered, clientGone, resDestroyed, sessions>>

ErrorAfter ==
  /\ Live
  /\ fired # {}
  /\ "error" \notin fired
  /\ SetSession(ErrorHandler(Session))
  /\ fired' = fired \cup {"error"}
  /\ wire' = <<>>
  /\ UNCHANGED <<gatewayVars, resHasFlush, received, delivered, clientGone, resDestroyed, sessions>>

AnyOrderNext == Next \/ EndAfter \/ ErrorAfter
AnyOrderSpec == Init /\ [][AnyOrderNext]_vars

\* The gateway on a runtime whose response object has flush().
FlushInit == Init /\ resHasFlush
FlushSpec == FlushInit /\ [][Next]_vars

\* The two endpoints over the request bodies of the translation families.
TranslateNext ==
  \/ \E r \in TranslateRequests : GenerateRequest(r)
  \/ \E r \in TranslateRequests : ChatRequest(r)
TranslateSpec == FlushInit /\ [][TranslateNext]_vars

\* A non-streaming exchange on either endpoint over the upstream bodies.
AccountingNext ==
  \/ GenerateRequest(PlainRequest)
  \/ ChatRequest(PlainRequest)
  \/ \E b \in Bodies : ReplyNonStreaming("body", b)
AccountingSpec == FlushInit /\ [][AccountingNext]_vars

\* ------------------------------------------------ concurrent exchanges
\* The locals a handler of exchange i closes over.
SessionOf(i) == sessions[i].s

Fired(i) ==
  {sessions[i].log[n].ev : n \in 1..Len(sessions[i].log)} \ {"data"}
\* The upstream of exchange i goes on sending while its stream is open.
LiveOf(i) ==
  /\ sessions[i].phase = "streaming"
  /\ Len(sessions[i].log) < MaxEvents
\* Handlers run while the process lives: an uncaught exception in any
\* exchange ends it for all, and what an upstream sends afterwards reaches
\* no handler.
ProcessAlive == \A j \in SessionIds : ~sessions[j].s.crashed
Handle(i, s) == IF ProcessAlive THEN s ELSE SessionOf(i)

Deliver(i, ev, chunk, s) ==
  /\ sessions' = [sessions EXCEPT ![i].s = s,
                                   ![i].log = Append(@, Event(ev, chunk))]
  /\ UNCHANGED <<gatewayVars, writes, ends, sessionVars, resHasFlush,
                 upstreamVars, clientGone, resDestroyed>>

\* An /api/chat exchange reaches its streaming branch: its locals are created.
Exchange(i) ==
  /\ sessions[i].phase = "idle"
  /\ ProcessAlive
  /\ sessions' = [sessions EXCEPT ![i] =
                    [phase |-> "streaming", s |-> InitSession, log |-> <<>>]]
  /\ UNCHANGED <<gatewayVars, writes, ends, sessionVars, resHasFlush,
                 upstreamVars, clientGone, resDestroyed>>

DataOf(i, chunk) ==
  /\ LiveOf(i)
  /\ Fired(i) = {}
  /\ Deliver(i, "data", chunk, Handle(i, DataHandler(SessionOf(i), chunk)))

EndOf(i) ==
  /\ LiveOf(i)
  /\ Fired(i) = {}
  /\ Deliver(i, "end", <<>>, Handle(i, EndHandler(SessionOf(i))))

ErrorOf(i) ==
  /\ LiveOf(i)
  /\ Fired(i) = {}
  /\ Deliver(i, "error", <<>>, Handle(i, ErrorHandler(SessionOf(i))))

CloseOf(i) ==
  /\ LiveOf(i)
  /\ "close" \notin Fired(i)
  /\ Deliver(i, "close", <<>>, Handle(i, CloseHandler(SessionOf(i))))

ConcurrentNext ==
  \/ \E i \in SessionIds : Exchange(i)
  \/ \E i \in SessionIds : \E chunk \in Chunks : DataOf(i, chunk)
  \/ \E i \in SessionIds : EndOf(i)
  \/ \E i \in SessionIds : ErrorOf(i)
  \/ \E i \in SessionIds : CloseOf(i)
ConcurrentSpec == Init /\ [][ConcurrentNext]_vars

\* The same, with a client that may go away mid-stream.
CancelNext == Next \/ ClientDisconnect
CancelSpec == FlushInit /\ [][CancelNext]_vars


\* ======================================================= the claims
DoneCount(w) == Cardinality({i \in 1..Len(w) : w[i] = DoneMarker})
HasDone(w) == DoneCount(w) > 0
CompleteLines(text) == Front(Split(text))
IsContentFrame(f) == f.k = "frame" /\ f.content # ""

\* C1: once the upstream stream of a streaming session has emitted end, close
\* or error, the terminal marker has been written exactly once.
C1_ExactlyOneMarker ==
  (pc = "streaming" /\ fired # {}) => DoneCount(writes) = 1

\* C2: the terminal marker is the last thing written: no write of the session
\* follows a '[DONE]' write.
C2_MarkerIsLast ==
  \A i \in 1..Len(writes) : writes[i] = DoneMarker => i = Len(writes)

\* Fairness the runtime guarantees: the outbound call settles (30 s timeout)
\* and a readable stream always comes to an end, close or error event.
Settle ==
  \/ \E o \in NoStream \cup Failures : ReplyNonStreaming(o, PlainBody)
  \/ StartStreaming
  \/ \E o \in {"body", "badbody"} : StartFallback(o)
  \/ \E o \in Failures \cup {"nobody"} : StreamingCallFails(o)
  \/ \E o \in NoStream \cup Failures : FallbackSettles(o)
Terminate == End \/ Error \/ Close
FairSpec == Spec /\ WF_vars(Settle) /\ WF_vars(Terminate)
FairFlushSpec == FlushSpec /\ WF_vars(Settle) /\ WF_vars(Terminate)

\* C3: every streaming /api/chat session whose 200 headers were sent
\* eventually has written the terminal marker and ended the response.
C3_EventuallyTerminated ==
  (endpoint = "chat" /\ isStreaming /\ status = 200)
    ~> (HasDone(writes) /\ ends > 0)

\* The content the upstream deltas carry, up to the line that terminates the
\* session (a finish delta contributes its own content).
IsWellFormedDelta(line) ==
  /\ StartsWithData(line)
  /\ JSONparse(Substring6(line)).ok
  /\ JSONparse(Substring6(line)).choices
RECURSIVE UpstreamContents(_)
UpstreamContents(lines) ==
  IF lines = <<>> THEN <<>>
  ELSE LET j == JSONparse(Substring6(Head(lines))) IN
       (IF j.content # "" THEN <<j.content>> ELSE <<>>)
       \o (IF j.finish_reason THEN <<>> ELSE UpstreamContents(Tail(lines)))
RECURSIVE WrittenContents(_)
WrittenContents(w) ==
  IF w = <<>> THEN <<>>
  ELSE (IF IsContentFrame(Head(w)) THEN <<Head(w).content>> ELSE <<>>)
       \o WrittenContents(Tail(w))

\* C4: for an upstream stream of well-formed deltas, the contents of the
\* frames written equal, in order, the contents of the deltas processed up to
\* termination: nothing lost, nothing written twice.
C4_ContentExactlyOnce ==
  (/\ pc = "streaming"
   /\ fired = {}
   /\ \A i \in 1..Len(CompleteLines(received)) :
         IsWellFormedDelta(CompleteLines(received)[i]))
  => WrittenContents(writes) = UpstreamContents(CompleteLines(received))

\* What the session writes when the whole byte sequence arrives in one chunk
\* and the stream then ends.
OneChunkWrites(bytes) ==
  LET s == DataHandler(InitSession, bytes) IN
  IF s.crashed THEN s.writes ELSE EndHandler(s).writes

\* C5: chunk-boundary independence: however the bytes were split into
\* chunks, the writes are those of the same bytes delivered in a single
\* chunk, before end-of-stream and after it.
C5_ChunkingIndependent ==
  /\ (pc = "streaming" /\ fired = {})
       => writes = DataHandler(InitSession, delivered).writes
  /\ (pc = "streaming" /\ fired = {"end"})
       => writes = OneChunkWrites(delivered)

\* The scenario of C6: N >= 1 content deltas and then one finish delta with
\* empty content, every record newline-terminated.
RECURSIVE ContentFrames(_)
ContentFrames(lines) ==
  IF lines = <<>> THEN <<>>
  ELSE <<Frame(JSONparse(Substring6(Head(lines))).content, FALSE, FALSE)>>
       \o ContentFrames(Tail(lines))
IsContentsThenFinish(text) ==
  /\ text # <<>>
  /\ Last(text) = NL
  /\ LET ls == CompleteLines(text) IN
     /\ Len(ls) >= 2
     /\ Last(ls) = LFinish
     /\ \A i \in 1..(Len(ls) - 1) : ls[i] \in {LContentA, LContentB}

\* C6: N content deltas then a finish delta, in any chunking, give exactly the
\* opening frame, the N content frames in order, one done frame, '[DONE]'.
C6_ScenarioFrames ==
  (pc = "streaming" /\ wire = <<>> /\ IsContentsThenFinish(received))
  => writes = <<Frame("", FALSE, FALSE)>>
              \o ContentFrames(Front(CompleteLines(received)))
              \o <<Frame("", FALSE, TRUE), DoneMarker>>

\* C7: once the inbound client has disconnected the session writes nothing
\* more to the response.
C7_NoWriteAfterDisconnect == [][clientGone => writes' = writes]_vars

\* C8: /api/chat streams exactly when streaming is requested (stream flag or
\* Accept header) and the normalized message list is non-empty; when it
\* streams, the outbound request has stream = true.
C8_ModeSelection ==
  (pc = "posting" /\ endpoint = "chat")
  => /\ isStreaming <=> ((req.stream \/ req.acceptSSE)
                          /\ NormalizeMessages(req) # <<>>)
     /\ isStreaming => posted = <<TRUE>>

\* C9: at most one outbound POST /v1/chat/completions per inbound request.
C9_SingleOutboundCall == Len(posted) <= 1

\* C10: a non-2xx upstream answer with a body reaches the client of either
\* endpoint as an HTTP reply with that status and body, streaming or not.
C10_StatusPropagated ==
  (pc = "replied" /\ UpStatus(upOutcome) # 0)
  => /\ status = UpStatus(upOutcome)
     /\ writes = <<JsonReply("upstream_error_body")>>

\* C10 as amended: the status and body are propagated whenever streaming was
\* not selected; when it was, the 200 headers are out already and the failure
\* arrives in-band as one error object followed by the terminal marker.
C10_StatusPropagatedUnlessStreaming ==
  (pc = "replied" /\ UpStatus(upOutcome) # 0)
  => IF ~isStreaming
     THEN /\ status = UpStatus(upOutcome)
          /\ writes = <<JsonReply("upstream_error_body")>>
          /\ ends = 1
     ELSE /\ status = 200
          /\ writes = <<ErrorObject("server_error"), DoneMarker>>
          /\ ends = 1
C10_Witness ==
  /\ pc = "replied"
  /\ upOutcome = "http401"
  /\ status = 401
  /\ writes = <<JsonReply("upstream_error_body")>>

\* C11: on the non-streaming path of either endpoint a failed outbound call or
\* a failed response translation gives exactly one JSON error reply: the
\* upstream status when there was a response, else 504 timeout_error for
\* ECONNABORTED, else 500 server_error.
C11_ErrorMapping ==
  (pc = "replied" /\ ~isStreaming /\ upOutcome \in Failures \cup {"badbody", "nobody"})
  => /\ Len(writes) = 1
     /\ ends = 1
     /\ writes[1].k = "json"
     /\ IF upOutcome \in {"http401", "http500"}
        THEN /\ status = (IF upOutcome = "http401" THEN 401 ELSE 500)
             /\ writes[1].content = "upstream_error_body"
        ELSE IF upOutcome = "timeout"
        THEN status = 504 /\ writes[1].content = "timeout_error"
        ELSE status = 500 /\ writes[1].content = "server_error"
C11_Witness ==
  /\ pc = "replied"
  /\ ~isStreaming
  /\ upOutcome = "timeout"
  /\ status = 504
  /\ writes = <<JsonReply("timeout_error")>>

\* C12: when the streaming call itself fails, after the 200 headers and before
\* any chunk, the client gets one in-band error object, then one terminal
\* marker, the response is ended once and the status stays 200: the outer
\* catch adds nothing.
C12_InBandError ==
  (pc = "replied" /\ isStreaming /\ upOutcome \in Failures)
  => /\ status = 200
     /\ writes = <<ErrorObject("server_error"), DoneMarker>>
     /\ ends = 1
C12_Witness ==
  /\ pc = "replied"
  /\ isStreaming
  /\ upOutcome = "neterr"
  /\ writes = <<ErrorObject("server_error"), DoneMarker>>
  /\ ends = 1

\* What each source of the conversation yields on its own.
FromMessages(r) ==
  SelectSeq(IF r.hasMessages THEN r.messages ELSE <<>>,
            LAMBDA e : ~e.isNull /\ e.hasRole /\ e.role # ""
                       /\ e.hasContent /\ e.content # <<>>)
FromSystem(r) == IF r.system # <<>> THEN <<[role |-> "system"]>> ELSE <<>>
HasTag(p) == \E i \in 1..Len(p) : p[i] \in {"<user>", "<assistant>"}
FromHistory(r) ==
  SelectSeq(IF r.hasHistory THEN r.history ELSE <<>>,
            LAMBDA e : ~e.isNull /\ e.hasRole /\ e.role \in {"user", "assistant"})
Roles(ms) == [i \in 1..Len(ms) |-> ms[i].role]
Contents(ms) == [i \in 1..Len(ms) |-> ms[i].content]

\* C13: the outbound messages come from exactly one source, the first of
\* messages, system, prompt, history that yields any message, and from the
\* synthetic empty user message when none does.
C13_SourcePrecedence ==
  (pc = "posting") =>
    LET m == openaiRequest.messages IN
    IF FromMessages(req) # <<>>
    THEN /\ Roles(m) = Roles(FromMessages(req))
         /\ Contents(m) = Contents(FromMessages(req))
    ELSE IF req.system # <<>>
    THEN m = <<[role |-> "system", content |-> req.system]>>
    ELSE IF req.prompt # <<>> /\ ~HasTag(req.prompt)
    THEN m = <<[role |-> "user", content |-> req.prompt]>>
    ELSE IF req.prompt # <<>> /\ ParseTaggedPrompt(req.prompt) # <<>>
    THEN m = ParseTaggedPrompt(req.prompt)
    ELSE IF FromHistory(req) # <<>>
    THEN Roles(m) = Roles(FromHistory(req))
    ELSE m = <<[role |-> "user", content |-> <<>>]>>
C13_Witness ==
  /\ pc = "posting"
  /\ FromMessages(req) = <<>>
  /\ req.hasMessages
  /\ req.system = <<"s">>
  /\ req.prompt = <<"x">>
  /\ req.hasHistory /\ req.history = <<ValidEntry>>
  /\ openaiRequest.messages = <<[role |-> "system", content |-> <<"s">>]>>

\* C14: the messages list of every outbound request is non-empty, and it is
\* the single empty user message when no source yields a message.
C14_MessagesNeverEmpty ==
  (pc = "posting") =>
    /\ openaiRequest.messages # <<>>
    /\ (/\ FromMessages(req) = <<>>
        /\ req.system = <<>>
        /\ (req.prompt = <<>>
              \/ (HasTag(req.prompt) /\ ParseTaggedPrompt(req.prompt) = <<>>))
        /\ FromHistory(req) = <<>>)
       => openaiRequest.messages = <<[role |-> "user", content |-> <<>>]>>
C14_Witness ==
  /\ pc = "posting"
  /\ req.hasMessages /\ req.messages = <<NoContentEntry, NoRoleEntry>>
  /\ req.hasHistory /\ req.history = <<SystemEntry>>
  /\ req.prompt = <<"<user>">>
  /\ openaiRequest.messages = <<[role |-> "user", content |-> <<>>]>>

\* The entries of a messages array that carry both a role field and a
\* content field, whatever the content's value.
WithRoleAndContent(items) ==
  SelectSeq(items, LAMBDA e : ~e.isNull /\ e.hasRole /\ e.hasContent)
OnlyMessages(r) ==
  /\ r.hasMessages
  /\ \A i \in 1..Len(r.messages) : ~r.messages[i].isNull
  /\ r.system = <<>> /\ r.prompt = <<>> /\ ~r.hasHistory

\* C15: for a request that supplies only a messages array, the normalized
\* list is the array without the entries that lack a role or a content
\* field, in order; an entry with an empty-string content is kept.
C15_FilterKeepsPresentFields ==
  (pc = "posting" /\ OnlyMessages(req)
     /\ WithRoleAndContent(req.messages) # <<>>)
  => /\ Roles(openaiRequest.messages) = Roles(WithRoleAndContent(req.messages))
     /\ Contents(openaiRequest.messages)
          = Contents(WithRoleAndContent(req.messages))

\* C16: a prompt made of balanced spans, the text of each starting on the
\* line of its opening tag or on the next line, is normalized to one Message
\* per span, in order, with the span's role and its trimmed text.
C16_SpansBecomeMessages ==
  (pc = "posting") =>
    \A spans \in SeqsUpTo(Spans, MaxSpans) :
      (spans # <<>> /\ req = PromptRequest(PromptOf(spans)))
      => openaiRequest.messages
           = [i \in 1..Len(spans) |->
                [role |-> spans[i].role, content |-> Trim(spans[i].text)]]

\* The span still open at the end of a prompt: the last line that starts with
\* an opening tag, when text follows the tag on that line and no closing-tag
\* line comes after it.
IsOpenLine(line) == Len(line) >= 1 /\ line[1] \in {"<user>", "<assistant>"}
IsCloseLine(line) == line \in {<<"</user>">>, <<"</assistant>">>}
LastOpen(ls) ==
  CHOOSE i \in 1..Len(ls) :
    IsOpenLine(ls[i]) /\ \A j \in (i + 1)..Len(ls) : ~IsOpenLine(ls[j])
OpenAtEnd(p) ==
  LET ls == Split(p) IN
  /\ \E i \in 1..Len(ls) : IsOpenLine(ls[i])
  /\ Len(ls[LastOpen(ls)]) >= 2
  /\ \A j \in (LastOpen(ls) + 1)..Len(ls) : ~IsCloseLine(ls[j])
RECURSIVE JoinLines(_)
JoinLines(ls) ==
  IF Len(ls) = 1 THEN ls[1] ELSE ls[1] \o <<NL>> \o JoinLines(Tail(ls))
OpenText(p) ==
  LET ls == Split(p) IN
  JoinLines(<<Tail(ls[LastOpen(ls)])>> \o SubSeq(ls, LastOpen(ls) + 1, Len(ls)))
OpenRole(p) ==
  IF Split(p)[LastOpen(Split(p))][1] = "<user>" THEN "user" ELSE "assistant"

\* C17: on every prompt that contains an opening tag the parser ends with a
\* message list all of whose roles are user or assistant, and the content
\* accumulated in a span still open at the end of the input is the last
\* Message, under the role of the last opening tag.
C17_ParserFlushesOpenSpan ==
  (pc = "posting" /\ FromMessages(req) = <<>> /\ req.system = <<>>
     /\ HasTag(req.prompt))
  => /\ \A i \in 1..Len(openaiRequest.messages) :
          openaiRequest.messages[i].role \in {"user", "assistant"}
     /\ OpenAtEnd(req.prompt)
        => /\ openaiRequest.messages # <<>>
           /\ Last(openaiRequest.messages)
                = [role |-> OpenRole(req.prompt),
                   content |-> Trim(OpenText(req.prompt))]
C17_Witness ==
  /\ pc = "posting"
  /\ req.prompt = <<"<assistant>", " ", "x", NL>>
  /\ OpenAtEnd(req.prompt)
  /\ openaiRequest.messages = <<[role |-> "assistant", content |-> <<"x">>]>>

\* C18: a repeat_penalty that is present, 0 and 1 included, gives
\* frequency_penalty = repeat_penalty - 1, which is absent only when
\* repeat_penalty is; a presence_penalty present with value 0 is forwarded
\* as 0.
C18_PenaltiesForwarded ==
  (pc = "posting") =>
    /\ openaiRequest.frequency_penalty
         = (IF req.repeat_penalty.has
            THEN [has |-> TRUE, v |-> req.repeat_penalty.v - 1]
            ELSE [has |-> FALSE, v |-> 0])
    /\ req.presence_penalty = [has |-> TRUE, v |-> 0]
         => openaiRequest.presence_penalty = [has |-> TRUE, v |-> 0]

\* C19: the token counts of a non-streaming reply of either endpoint come from
\* the usage block whenever the upstream body has one, timings or not; from
\* timings (cache_n, predicted_n, their sum) when it has only timings; and are
\* all 0 when it has neither.
C19_TokenAccounting ==
  (pc = "replied" /\ upOutcome = "body" /\ ~isStreaming) =>
    LET u == openaiResponse.usage
        tm == openaiResponse.timings
        r == ollamaResponse
        N(o) == IF o.has THEN o.v ELSE 0
    IN /\ r.k = endpoint
       /\ u.has =>
            /\ r.prompt_eval_count = N(u.prompt_tokens)
            /\ r.eval_count = N(u.completion_tokens)
            /\ r.total_tokens = N(u.total_tokens)
       /\ (~u.has /\ tm.has) =>
            /\ r.prompt_eval_count = N(tm.cache_n)
            /\ r.eval_count = N(tm.predicted_n)
            /\ r.total_tokens = N(tm.cache_n) + N(tm.predicted_n)
       /\ (~u.has /\ ~tm.has) =>
            /\ r.prompt_eval_count = 0
            /\ r.eval_count = 0
            /\ r.total_tokens = 0

\* C19 as amended: usage wins whenever present; a timings block counts only
\* when it carries cache_n, and then gives cache_n, predicted_n (0 when
\* absent) and their sum; in every other case the three counts are 0.
C19_TokenAccountingWithCacheN ==
  (pc = "replied" /\ upOutcome = "body" /\ ~isStreaming) =>
    LET u == openaiResponse.usage
        tm == openaiResponse.timings
        r == ollamaResponse
        N(o) == IF o.has THEN o.v ELSE 0
    IN /\ r.k = endpoint
       /\ u.has =>
            /\ r.prompt_eval_count = N(u.prompt_tokens)
            /\ r.eval_count = N(u.completion_tokens)
            /\ r.total_tokens = N(u.total_tokens)
       /\ (~u.has /\ tm.has /\ tm.cache_n.has) =>
            /\ r.prompt_eval_count = tm.cache_n.v
            /\ r.eval_count = N(tm.predicted_n)
            /\ r.total_tokens = tm.cache_n.v + N(tm.predicted_n)
       /\ (~u.has /\ ~(tm.has /\ tm.cache_n.has)) =>
            /\ r.prompt_eval_count = 0
            /\ r.eval_count = 0
            /\ r.total_tokens = 0
C19_Witness ==
  /\ pc = "replied"
  /\ endpoint = "chat"
  /\ openaiResponse.usage.has
  /\ openaiResponse.usage.prompt_tokens = [has |-> TRUE, v |-> 1]
  /\ openaiResponse.timings.has
  /\ openaiResponse.timings.cache_n = [has |-> TRUE, v |-> 0]
  /\ ollamaResponse.prompt_eval_count = 1

\* C20: in a streaming session the opening frame (empty content, done=false)
\* is written at most once, and every content frame and every done=true frame
\* comes after it, for deltas handled on arrival and for a delta handled from
\* the residual buffer at end-of-stream.
C20_OpeningFrameFirst ==
  (endpoint = "chat" /\ isStreaming) =>
    /\ Cardinality({i \in 1..Len(writes) : writes[i] = Frame("", FALSE, FALSE)}) <= 1
    /\ \A i \in 1..Len(writes) :
         (/\ writes[i].k = "frame"
          /\ (writes[i].content # "" \/ writes[i].tool_calls \/ writes[i].done))
         => \E j \in 1..(i - 1) : writes[j] = Frame("", FALSE, FALSE)

\* The text after the last newline of an upstream byte sequence.
AfterLastNewline(text) == Last(Split(text))

\* C21: between transport reads the line buffer holds no newline, and while
\* the session is not terminated the bytes received are the complete lines
\* already taken out of the buffer followed by the buffer: the buffer is the
\* text after the last newline received.
C21_BufferIsTrailingFragment ==
  (pc = "streaming") =>
    /\ \A i \in 1..Len(responseBuffer) : responseBuffer[i] # NL
    /\ ~streamEnded => responseBuffer = AfterLastNewline(received)
C21_Witness ==
  /\ pc = "streaming"
  /\ ~streamEnded
  /\ \E i \in 1..Len(received) : received[i] = NL
  /\ responseBuffer = <<DataPrefix, "{b">>
  /\ writes = <<Frame("", FALSE, FALSE), Frame("a", FALSE, FALSE)>>

\* The content an upstream line carries ("" when it is no delta with content).
ContentOfLine(line) ==
  IF IsWellFormedDelta(line) THEN JSONparse(Substring6(line)).content ELSE ""

\* C22: frames are written in the order of their upstream lines: when a frame
\* with content X is written before a frame with another content Y, a line
\* carrying X precedes a line carrying Y in the upstream byte stream.
C22_FramesInUpstreamOrder ==
  (pc = "streaming") =>
    LET ls == Split(received) IN
    \A i, j \in 1..Len(writes) :
      (/\ i < j
       /\ IsContentFrame(writes[i]) /\ IsContentFrame(writes[j])
       /\ writes[i].content # writes[j].content)
      => \E p, q \in 1..Len(ls) :
           /\ p < q
           /\ ContentOfLine(ls[p]) = writes[i].content
           /\ ContentOfLine(ls[q]) = writes[j].content
C22_Witness ==
  /\ pc = "streaming"
  /\ received = LContentB \o <<NL>> \o LContentA \o <<NL>>
  /\ writes = <<Frame("", FALSE, FALSE), Frame("b", FALSE, FALSE),
                Frame("a", FALSE, FALSE)>>

\* What a session writes, and the locals it is left with, when it runs alone
\* and its upstream sends the events of a log: the handlers run until one of
\* them ends the process.
Apply(s, e) ==
  IF e.ev = "data" THEN DataHandler(s, e.chunk)
  ELSE IF e.ev = "end" THEN EndHandler(s)
  ELSE IF e.ev = "error" THEN ErrorHandler(s)
  ELSE CloseHandler(s)
RECURSIVE Replay(_, _)
Replay(s, log) ==
  IF log = <<>> \/ s.crashed THEN s
  ELSE Replay(Apply(s, Head(log)), Tail(log))

\* C23: with streaming exchanges in flight whose upstream events interleave,
\* the line buffer, the first-frame flag, the terminated flag and the writes
\* of each session are those the session has when it runs alone and its
\* upstream sends the same events, whatever the other exchanges do.
C23_SessionsIsolated ==
  \A i \in SessionIds :
    sessions[i].phase = "streaming"
      => sessions[i].s = Replay(InitSession, sessions[i].log)

\* C24: when streaming was selected and the upstream reply is no incremental
\* stream, the client receives one complete chat reply object and nothing
\* else, and the response is ended exactly once.
C24_FallbackSingleReply ==
  (pc = "replied" /\ isStreaming /\ upOutcome = "body")
  => /\ writes = <<JsonReply("chat")>>
     /\ ends = 1

\* C25: every Message of the outbound message list has a role among system,
\* user and assistant, whichever source produced it.
C25_RolesInEnum ==
  (pc = "posting") =>
    \A i \in 1..Len(openaiRequest.messages) :
      openaiRequest.messages[i].role \in {"system", "user", "assistant"}

\* C26: a line that fails to parse as a delta payload gives one parse-error
\* object followed by one terminal marker and terminates the session:
\* the lines that follow in the chunk or in later chunks are ignored, so
\* nothing is written after that marker and the gateway goes on running.
C26_ParseErrorTerminates ==
  (pc = "streaming") =>
    \A i \in 1..Len(writes) :
      writes[i] = ErrorObject("parse_error")
        => /\ i = Len(writes) - 1
           /\ writes[Len(writes)] = DoneMarker
           /\ streamEnded
           /\ ~crashed

\* C27: a finish delta gives exactly one frame with done=true, immediately
\* followed by the terminal marker; no error object is written for a stream
\* of well-formed deltas, and the session has no other done=true frame.
C27_OneDoneFrame ==
  (pc = "streaming") =>
    /\ Cardinality({i \in 1..Len(writes) :
                      writes[i].k = "frame" /\ writes[i].done}) <= 1
    /\ \A i \in 1..Len(writes) :
         (writes[i].k = "frame" /\ writes[i].done)
         => i < Len(writes) /\ writes[i + 1] = DoneMarker
    /\ (\A n \in 1..Len(Split(received)) :
           \/ Split(received)[n] = <<>>
           \/ IsWellFormedDelta(Split(received)[n]))
       => \A i \in 1..Len(writes) : writes[i] # ErrorObject("parse_error")

\* C28: an upstream payload carrying an error object gives exactly that error
\* object followed by the terminal marker and terminates the session: no
\* later input causes a write.
C28_UpstreamErrorTerminates ==
  (pc = "streaming") =>
    \A i \in 1..Len(writes) :
      writes[i] = ErrorObject("upstream")
        => /\ i = Len(writes) - 1
           /\ writes[Len(writes)] = DoneMarker

\* C29: a heartbeat delta (empty content, no tool calls, no finish_reason)
\* causes no frame of its own: a frame with empty content and done=false is
\* only ever the opening frame, the first write of the session.
C29_HeartbeatWritesNothing ==
  (/\ pc = "streaming"
   /\ \E n \in 1..Len(Split(received)) : Split(received)[n] = LHeartbeat
   /\ \A n \in 1..Len(Split(received)) :
        Split(received)[n] \in {LContentA, LContentB, LHeartbeat, <<>>})
  => \A i \in 1..Len(writes) : writes[i] = Frame("", FALSE, FALSE) => i = 1

\* C30: a single well-formed record left in the line buffer at end-of-stream
\* gives the writes the same record gives when it arrives newline-terminated
\* in a chunk before the end of the stream.
C30_ResidualLikeLine ==
  (pc = "streaming" /\ fired = {"end"} /\ received \in LineKinds
     /\ StartsWithData(received))
  => writes = OneChunkWrites(received \o <<NL>>)

\* The upstream stream emits the event ev in this step.
Emits(ev) == ev \notin fired /\ ev \in fired'

\* C31: a transport error on a session that is not terminated writes one
\* stream-error object and then the terminal marker; end-of-stream with an
\* empty residual buffer, and close, write only the terminal marker; and of
\* end / close / error fired for the same upstream, in any order, only the
\* first writes anything: the later ones attempt no write either.
C31_StreamEndings ==
  [][/\ (Emits("error") /\ ~streamEnded)
        => writes' = writes \o <<ErrorObject("stream_error"), DoneMarker>>
     /\ (Emits("end") /\ ~streamEnded /\ Trim(responseBuffer) = <<>>)
        => writes' = Append(writes, DoneMarker)
     /\ (Emits("close") /\ ~streamEnded)
        => writes' = Append(writes, DoneMarker)
     /\ (fired # {} /\ fired' # fired) => (writes' = writes /\ ~crashed')]_vars
C31_Witness ==
  /\ pc = "streaming"
  /\ fired = {"error", "end", "close"}
  /\ writes = <<ErrorObject("stream_error"), DoneMarker>>
  /\ ends = 1

\* The bytes the 'data' event of this step delivers.
Arrived == SubSeq(received', Len(received) + 1, Len(received'))
\* The lines the 'data' handler of this step walks.
Walked == Front(Split(responseBuffer \o Arrived))

\* C32: a line that does not start with "data: " causes no write and leaves
\* the first-frame flag and the terminated flag as they were, and the loop
\* goes on with the next line: a 'data' event acts as it would on the same
\* lines without the unmarked ones, and an unmarked residual line adds
\* nothing to the marker written at 'end'.
C32_UnmarkedLineSkipped ==
  [][/\ (pc = "streaming" /\ received' # received /\ ~streamEnded)
        => LET after == DataLoop(Session, SelectSeq(Walked, StartsWithData)) IN
           /\ writes' = after.writes
           /\ firstChunk' = after.firstChunk
           /\ streamEnded' = after.streamEnded
           /\ (\A i \in 1..Len(Walked) : ~StartsWithData(Walked[i]))
                 => /\ writes' = writes
                    /\ firstChunk' = firstChunk
                    /\ streamEnded' = streamEnded
     /\ (pc = "streaming" /\ Emits("end") /\ ~streamEnded
           /\ ~StartsWithData(responseBuffer))
        => /\ writes' = Append(writes, DoneMarker)
           /\ firstChunk' = firstChunk]_vars
C32_Witness ==
  /\ pc = "streaming"
  /\ received = LComment \o <<NL>> \o LContentA \o <<NL>>
  /\ writes = <<Frame("", FALSE, FALSE), Frame("a", FALSE, FALSE)>>
  /\ ~firstChunk
  /\ ~streamEnded

\* C33: the terminated flag never goes back to FALSE, and once it is set
\* every later 'data', 'end', 'close' or 'error' event writes nothing and
\* leaves the line buffer, the first-frame flag and the flag itself alone.
C33_TerminatedAbsorbing ==
  [][/\ (pc = "streaming" /\ streamEnded) => streamEnded'
     /\ (pc = "streaming" /\ streamEnded
           /\ (received' # received \/ fired' # fired \/ wire' # wire))
        => /\ writes' = writes
           /\ responseBuffer' = responseBuffer
           /\ firstChunk' = firstChunk
           /\ streamEnded' = streamEnded]_vars
C33_Witness ==
  /\ pc = "streaming"
  /\ streamEnded
  /\ received = LFinish \o <<NL>> \o LContentA \o <<NL>>
  /\ fired = {"close", "end", "error"}
  /\ writes = <<Frame("", FALSE, FALSE), Frame("", FALSE, TRUE), DoneMarker>>

\* C34: on a non-streaming path (every /api/generate request, and every
\* /api/chat request for which streaming was not selected or was forced off)
\* the outbound request is sent with stream = false.
C34_NonStreamingPostsStreamFalse ==
  (pc = "posting" /\ ~isStreaming)
  => /\ openaiRequest.stream = FALSE
     /\ posted = <<FALSE>>

====
